---- MODULE Spec2Model ----
(***************************************************************************)
(* Library record store: the in-memory aggregate of src/src/library.py     *)
(* (Library), its entities (src/src/book.py, src/src/borrower.py) and the  *)
(* request handlers of src/app.py that call it.                            *)
(*                                                                         *)
(* A Python dict is modelled as a sequence of [key, val] entries in        *)
(* insertion order.  Timestamps are whole days on the clock `now`.         *)
(***************************************************************************)
EXTENDS Integers, Sequences, FiniteSets, TLC

\* ------------------------------------------------------------ constants
\* Library(loan_days=14)
LOAN_DAYS == 14

\* ------------------------------------------------------------ bounds
\* largest copy count (and largest running total of added copies) explored
MaxCopies == 2
\* largest number of outstanding loan records, summed over all borrowers
MaxLoans == 2
\* last day of the clock
MaxNow == 15
\* longest 'books' and 'borrowers' list of a backing file written by hand
MaxItems == 2
\* longest query string of a search
MaxQuery == 2

\* ------------------------------------------------------------ input sets
ISBNs == {"111", "222"}
MemberIds == {"m1", "m2"}
\* (title, author, genre) triples handed to add_book
BookDescs == {<<"T", "A", "G">>, <<"U", "B", "H">>}
\* quantity arguments, negative included: the handlers take any int
Quantities == -1 .. MaxCopies
\* keyword arguments handed to update_book: any subset of the fields
QuantityKwargs == {[quantity |-> q] : q \in Quantities}
UpdateBookKwargs ==
    QuantityKwargs
        \cup {[title |-> "U"], [title |-> "U", author |-> "B", genre |-> "H"],
              [title |-> "U", author |-> "B", genre |-> "H", quantity |-> -1]}
\* (name, contact) pairs handed to add_borrower
BorrowerDescs == {<<"Ann", "c1">>, <<"Bob", "c2">>}
\* keyword arguments handed to update_borrower; "" is a falsy value
UpdateBorrowerKwargs ==
    {[name |-> "Bob", contact |-> "c2"], [name |-> ""], [name |-> "", contact |-> ""]}
\* the days at which the clock is observed: day 0 and the days from the
\* first due date on
Days == {t \in 0 .. MaxNow : t = 0 \/ t >= LOAN_DAYS}

VARIABLES
    books,        \* Library.books_by_isbn
    borrowers,    \* Library.borrowers_by_id
    file,         \* content of the backing file (Library.data_path)
    now,          \* datetime.now()
    disk,         \* the file system: "healthy", "failing" (the next write
                  \* fails) or "repaired"
    result,       \* the call whose result the caller has not consumed yet:
                  \* operation, arguments, outcome, return value
    workers,      \* the worker threads of the HTTP server: where each one is
                  \* in borrow_book, and its local variables
    added,        \* history: per isbn, sum of the quantities add_book accepted
    conserving    \* history: no operation so far dropped or overwrote copies

vars == <<books, borrowers, file, now, disk, result, workers, added, conserving>>

\* ------------------------------------------------------------ dict
DictHas(d, k) == \E n \in 1 .. Len(d) : d[n].key = k

DictGet(d, k) == d[CHOOSE n \in 1 .. Len(d) : d[n].key = k].val

DictSet(d, k, v) ==
    IF DictHas(d, k)
    THEN [n \in 1 .. Len(d) |-> IF d[n].key = k THEN [key |-> k, val |-> v] ELSE d[n]]
    ELSE Append(d, [key |-> k, val |-> v])

DictDel(d, k) == SelectSeq(d, LAMBDA e : e.key # k)

DictValues(d) == [n \in 1 .. Len(d) |-> d[n].val]

DictKeys(d) == {d[n].key : n \in 1 .. Len(d)}

\* ------------------------------------------------------------ Book
Book(title, author, isbn, genre, quantity) ==
    [title |-> title, author |-> author, isbn |-> isbn, genre |-> genre,
     quantity |-> quantity]

Book_to_dict(b) ==
    [title |-> b.title, author |-> b.author, isbn |-> b.isbn, genre |-> b.genre,
     quantity |-> b.quantity]

\* Book.update: the fields are assigned one after the other, the quantity
\* last; a negative quantity raises after the earlier fields were assigned.
Book_update(b, kw) ==
    LET b1 == IF "title" \in DOMAIN kw THEN [b EXCEPT !.title = kw.title] ELSE b
        b2 == IF "author" \in DOMAIN kw THEN [b1 EXCEPT !.author = kw.author] ELSE b1
        b3 == IF "genre" \in DOMAIN kw THEN [b2 EXCEPT !.genre = kw.genre] ELSE b2
    IN  IF "quantity" \in DOMAIN kw
        THEN IF kw.quantity < 0
             THEN [book |-> b3, raised |-> TRUE]
             ELSE [book |-> [b3 EXCEPT !.quantity = kw.quantity], raised |-> FALSE]
        ELSE [book |-> b3, raised |-> FALSE]

is_available(b) == b.quantity > 0

\* ------------------------------------------------------------ Borrower
BorrowedRecord(isbn, borrowed_on, due_date) ==
    [isbn |-> isbn, borrowed_on |-> borrowed_on, due_date |-> due_date]

\* datetime.isoformat: the decimal digits of the day
RECURSIVE isoformat(_)
isoformat(t) == IF t < 10 THEN <<t>> ELSE Append(isoformat(t \div 10), t % 10)

BorrowedRecord_to_dict(r) ==
    [isbn |-> r.isbn, borrowed_on |-> isoformat(r.borrowed_on),
     due_date |-> isoformat(r.due_date)]

\* Borrower.__post_init__: a falsy membership_id ("" stands for None too) is
\* replaced by the generated token `generated`
Borrower(name, contact, membership_id, borrowed_books, generated) ==
    [name |-> name, contact |-> contact,
     membership_id |-> IF membership_id = "" THEN generated ELSE membership_id,
     borrowed_books |-> borrowed_books]

Borrower_to_dict(br) ==
    [name |-> br.name, contact |-> br.contact, membership_id |-> br.membership_id,
     borrowed_books |->
        [n \in 1 .. Len(br.borrowed_books) |-> BorrowedRecord_to_dict(br.borrowed_books[n])]]

\* Borrower.update: a falsy (absent or empty) value leaves the field alone
Borrower_update(br, kw) ==
    LET b1 == IF "name" \in DOMAIN kw /\ kw.name # "" THEN [br EXCEPT !.name = kw.name] ELSE br
    IN  IF "contact" \in DOMAIN kw /\ kw.contact # "" THEN [b1 EXCEPT !.contact = kw.contact] ELSE b1

\* ------------------------------------------------------------ outcomes
\* what a Library call leaves behind: the two dicts, how it ended
\* ("ok", "KeyError", "ValueError") and what it returned (or the message)
Outcome(bks, brs, status, ret) ==
    [books |-> bks, borrowers |-> brs, status |-> status, ret |-> ret]

\* return_book's search loop: the index of the first record of `recs` with
\* this isbn, 0 if there is none
LastMatch(recs, isbn) ==
    IF \E n \in 1 .. Len(recs) : recs[n].isbn = isbn
    THEN CHOOSE n \in 1 .. Len(recs) :
            /\ recs[n].isbn = isbn
            /\ \A k \in n + 1 .. Len(recs) : recs[k].isbn # isbn
    ELSE 0

AnyRecord(recs, isbn) == IF recs # <<>> THEN 1 ELSE 0

FirstMatch(recs, isbn) ==
    IF \E n \in 1 .. Len(recs) : recs[n].isbn = isbn
    THEN CHOOSE n \in 1 .. Len(recs) :
            /\ recs[n].isbn = isbn
            /\ \A k \in 1 .. n - 1 : recs[k].isbn # isbn
    ELSE 0

\* list.remove(x): drops the first element equal to x
ListRemove(s, x) ==
    LET n == CHOOSE k \in 1 .. Len(s) : s[k] = x /\ \A j \in 1 .. k - 1 : s[j] # x
    IN  [k \in 1 .. Len(s) - 1 |-> IF k < n THEN s[k] ELSE s[k + 1]]

\* ------------------------------------------------------------ Library
\* add_book on an isbn that exists: book.update(quantity=book.quantity + quantity)
MergeOverwrite(book, title, author, genre, quantity) ==
    Book_update(book, [title |-> title, author |-> author, genre |-> genre,
                       quantity |-> book.quantity + quantity])

Merge(book, title, author, genre, quantity) ==
    Book_update(book, [quantity |-> book.quantity + quantity])

add_book(bks, brs, title, author, isbn, genre, quantity) ==
    IF DictHas(bks, isbn)
    THEN LET book == DictGet(bks, isbn)
             u == Merge(book, title, author, genre, quantity)
         IN  IF u.raised
             THEN Outcome(DictSet(bks, isbn, u.book), brs, "ValueError",
                          "Quantity cannot be negative")
             ELSE Outcome(DictSet(bks, isbn, u.book), brs, "ok", u.book)
    ELSE LET book == Book(title, author, isbn, genre, quantity)
         IN  Outcome(DictSet(bks, isbn, book), brs, "ok", book)

update_book(bks, brs, isbn, kw) ==
    IF ~DictHas(bks, isbn)
    THEN Outcome(bks, brs, "KeyError", "Book not found")
    ELSE LET u == Book_update(DictGet(bks, isbn), kw)
         IN  IF u.raised
             THEN Outcome(DictSet(bks, isbn, u.book), brs, "ValueError",
                          "Quantity cannot be negative")
             ELSE Outcome(DictSet(bks, isbn, u.book), brs, "ok", u.book)

remove_book_UnlessLent(bks, brs, isbn) ==
    IF ~DictHas(bks, isbn)
    THEN Outcome(bks, brs, "KeyError", "Book not found")
    ELSE IF \E n \in 1 .. Len(brs) :
                \E k \in 1 .. Len(brs[n].val.borrowed_books) :
                    brs[n].val.borrowed_books[k].isbn = isbn
    THEN Outcome(bks, brs, "ValueError", "Book has outstanding loans")
    ELSE Outcome(DictDel(bks, isbn), brs, "ok", TRUE)

remove_book(bks, brs, isbn) ==
    IF ~DictHas(bks, isbn)
    THEN Outcome(bks, brs, "KeyError", "Book not found")
    ELSE Outcome(DictDel(bks, isbn), brs, "ok", TRUE)

add_borrower(bks, brs, name, contact, membership_id, generated) ==
    LET borrower == Borrower(name, contact, membership_id, <<>>, generated)
    IN  Outcome(bks, DictSet(brs, borrower.membership_id, borrower), "ok", borrower)

update_borrower(bks, brs, membership_id, kw) ==
    IF ~DictHas(brs, membership_id)
    THEN Outcome(bks, brs, "KeyError", "Borrower not found")
    ELSE LET borrower == Borrower_update(DictGet(brs, membership_id), kw)
         IN  Outcome(bks, DictSet(brs, membership_id, borrower), "ok", borrower)

remove_borrower(bks, brs, membership_id) ==
    IF ~DictHas(brs, membership_id)
    THEN Outcome(bks, brs, "KeyError", "Borrower not found")
    ELSE Outcome(bks, DictDel(brs, membership_id), "ok", TRUE)

\* borrow_book's capacity check: book.quantity <= 0
NoCopiesStrict(book) == book.quantity < 0

NoCopies(book) == book.quantity <= 0

\* book.quantity -= 1
LentTwice(book) == [book EXCEPT !.quantity = @ - 2]

Lent(book) == [book EXCEPT !.quantity = @ - 1]

\* book.quantity += 1
ReturnedNot(book) == book

Returned(book) == [book EXCEPT !.quantity = @ + 1]

\* borrower.borrowed_books.append(record)
PrependRecord(recs, record) == <<record>> \o recs

AppendRecord(recs, record) == Append(recs, record)

\* borrow_book checking the isbn before the membership_id
borrow_book_BookFirst(bks, brs, t, membership_id, isbn) ==
    IF ~DictHas(bks, isbn)
    THEN Outcome(bks, brs, "KeyError", "Book not found")
    ELSE IF ~DictHas(brs, membership_id)
    THEN Outcome(bks, brs, "KeyError", "Borrower not found")
    ELSE LET book == DictGet(bks, isbn)
         IN  IF NoCopies(book)
             THEN Outcome(bks, brs, "ValueError", "No copies available")
             ELSE LET borrower == DictGet(brs, membership_id)
                      record == BorrowedRecord(isbn, t, t + LOAN_DAYS)
                  IN  Outcome(
                        DictSet(bks, isbn, Lent(book)),
                        DictSet(brs, membership_id,
                                [borrower EXCEPT
                                    !.borrowed_books = AppendRecord(@, record)]),
                        "ok", record)

borrow_book(bks, brs, t, membership_id, isbn) ==
    IF ~DictHas(brs, membership_id)
    THEN Outcome(bks, brs, "KeyError", "Borrower not found")
    ELSE IF ~DictHas(bks, isbn)
    THEN Outcome(bks, brs, "KeyError", "Book not found")
    ELSE LET book == DictGet(bks, isbn)
         IN  IF NoCopies(book)
             THEN Outcome(bks, brs, "ValueError", "No copies available")
             ELSE LET borrower == DictGet(brs, membership_id)
                      borrowed_on == t
                      due_date == borrowed_on + LOAN_DAYS
                      record == BorrowedRecord(isbn, borrowed_on, due_date)
                  IN  Outcome(
                        DictSet(bks, isbn, Lent(book)),
                        DictSet(brs, membership_id,
                                [borrower EXCEPT
                                    !.borrowed_books = AppendRecord(@, record)]),
                        "ok", record)

\* return_book's overdue flag: now > found.due_date
OverdueFromDueDay(t, record) == t >= record.due_date

Overdue(t, record) == t > record.due_date

return_book(bks, brs, t, membership_id, isbn) ==
    IF ~DictHas(brs, membership_id)
    THEN Outcome(bks, brs, "KeyError", "Borrower not found")
    ELSE IF ~DictHas(bks, isbn)
    THEN Outcome(bks, brs, "KeyError", "Book not found")
    ELSE LET borrower == DictGet(brs, membership_id)
             n == FirstMatch(borrower.borrowed_books, isbn)
         IN  IF n = 0
             THEN Outcome(bks, brs, "ValueError", "This borrower did not borrow this book")
             ELSE LET found == borrower.borrowed_books[n]
                      book == DictGet(bks, isbn)
                  IN  Outcome(
                        DictSet(bks, isbn, Returned(book)),
                        DictSet(brs, membership_id,
                                [borrower EXCEPT !.borrowed_books = ListRemove(@, found)]),
                        "ok",
                        [returned |-> TRUE, overdue |-> Overdue(t, found),
                         due_date |-> isoformat(found.due_date)])

\* ------------------------------------------------------------ persistence
\* The content of the backing file: no file ("missing"), text that json.load
\* rejects ("text"), or a JSON document ("json") with the type of its top
\* level value and, for an object, its 'books' and 'borrowers' values.  A
\* value has a JSON type ("absent" when the key is not there) and, when it
\* can be iterated, its items.
JsonValue(type, items) == [type |-> type, items |-> items]

Absent == JsonValue("absent", <<>>)

JsonFile(top, bks, brs) == [kind |-> "json", top |-> top, books |-> bks, borrowers |-> brs]

\* the `data` dict that _save dumps
SaveData(bks, brs) ==
    JsonFile("object",
             JsonValue("list", [n \in 1 .. Len(bks) |-> Book_to_dict(bks[n].val)]),
             JsonValue("list", [n \in 1 .. Len(brs) |-> Borrower_to_dict(brs[n].val)]))

\* a file cut short by a write that failed after open('w') truncated it
PartialFile == [kind |-> "text", top |-> "none", books |-> Absent, borrowers |-> Absent]

MissingFile == [kind |-> "missing", top |-> "none", books |-> Absent, borrowers |-> Absent]

saveKeepingFile(bks, brs) == UNCHANGED <<file, disk>>

\* _save: the write succeeds, or open() fails and the file stays, or the
\* dump fails and leaves a truncated file; the exception is swallowed
save(bks, brs) ==
    IF disk = "failing"
    THEN /\ file' \in {file, PartialFile}
         /\ disk' = "repaired"
    ELSE /\ file' = SaveData(bks, brs)
         /\ UNCHANGED disk

\* ------------------------------------------------------------ search
\* Strings that are searched are sequences of characters; the titles, authors
\* and genres used here are one character long.
Chars(str) == <<str>>

Lower(c) ==
    CASE c = "T" -> "t" [] c = "U" -> "u" [] c = "A" -> "a" [] c = "B" -> "b"
      [] c = "G" -> "g" [] c = "H" -> "h" [] OTHER -> c

\* str.lower
lower(s) == [n \in 1 .. Len(s) |-> Lower(s[n])]

\* str.strip
RECURSIVE lstrip(_)
lstrip(s) == IF s # <<>> /\ Head(s) = " " THEN lstrip(Tail(s)) ELSE s

RECURSIVE rstrip(_)
rstrip(s) ==
    IF s # <<>> /\ s[Len(s)] = " " THEN rstrip(SubSeq(s, 1, Len(s) - 1)) ELSE s

strip(s) == rstrip(lstrip(s))

\* q in text
Contains(text, q) ==
    \E k \in 0 .. Len(text) - Len(q) : SubSeq(text, k + 1, k + Len(q)) = q

\* the body of search_books' loop: does the book go into the results
MatchesAnyField(book, q, field) ==
    \/ q = <<>>
    \/ Contains(lower(Chars(book.title)), q)
    \/ Contains(lower(Chars(book.author)), q)
    \/ Contains(lower(Chars(book.genre)), q)

Matches(book, q, field) ==
    \/ q = <<>>
    \/ field = "title" /\ Contains(lower(Chars(book.title)), q)
    \/ field = "author" /\ Contains(lower(Chars(book.author)), q)
    \/ field = "genre" /\ Contains(lower(Chars(book.genre)), q)

search_books(bks, query, field) ==
    LET q == lower(strip(query))
    IN  SelectSeq(DictValues(bks), LAMBDA book : Matches(book, q, field))

\* query strings and field names of a search
QueryChars == {"t", "A", " "}

Queries == UNION {[1 .. n -> QueryChars] : n \in 0 .. MaxQuery}

Fields == {"title", "author", "genre", "isbn"}

\* ------------------------------------------------------------ file contents
\* tokens that uuid4 generates, distinct from every id in use
GeneratedIds == {"u1"}

\* records of a 'books' list: two that Book(**b) accepts, one that lacks fields
BookItems ==
    {Book_to_dict(Book("T", "A", "111", "G", 1)),
     Book_to_dict(Book("U", "B", "222", "H", 0)),
     [title |-> "T"]}

\* records of a 'borrowers' list: one with a loan, one without membership_id
\* and borrowed_books, one without contact, one whose loan has a timestamp
\* that fromisoformat rejects
NoIdBorrower == [name |-> "Bob", contact |-> "c2"]

BorrowerItems ==
    {Borrower_to_dict(Borrower("Ann", "c1", "m1",
                               <<BorrowedRecord("111", 0, LOAN_DAYS)>>, "")),
     NoIdBorrower,
     [name |-> "Eve"],
     [name |-> "Dan", contact |-> "c4", membership_id |-> "m2",
      borrowed_books |-> <<[isbn |-> "111", borrowed_on |-> <<>>,
                            due_date |-> isoformat(LOAN_DAYS)]>>]}

ListsOf(S) == UNION {[1 .. n -> S] : n \in 0 .. MaxItems}

\* values of the 'books' key: not there, a number, a string, a list
BooksValues ==
    {Absent, JsonValue("number", <<>>), JsonValue("string", <<[char |-> "x"]>>)}
        \cup {JsonValue("list", l) : l \in ListsOf(BookItems)}

\* values of the 'borrowers' key; uuid4 tokens being distinct, at most one
\* record without membership_id
BorrowersValues ==
    {Absent, JsonValue("number", <<>>), JsonValue("string", <<[char |-> "x"]>>)}
        \cup {JsonValue("list", l) : l \in
                {l \in ListsOf(BorrowerItems) :
                    Cardinality({n \in 1 .. Len(l) : l[n] = NoIdBorrower}) <= 1}}

\* contents of the backing file found by the constructor
FileContents ==
    {MissingFile, PartialFile, JsonFile("array", Absent, Absent)}
        \cup {JsonFile("object", b, r) : b \in BooksValues, r \in BorrowersValues}

\* ------------------------------------------------------------ load
\* datetime.fromisoformat: the string must be the decimal digits of a day
IsIsoformat(s) == Len(s) >= 1 /\ \A n \in 1 .. Len(s) : s[n] \in 0 .. 9

RECURSIVE fromisoformat(_)
fromisoformat(s) ==
    IF Len(s) = 1 THEN s[1]
    ELSE 10 * fromisoformat(SubSeq(s, 1, Len(s) - 1)) + s[Len(s)]

\* Book(**b): the keys of b must be exactly the fields of Book
BookKeys == {"title", "author", "isbn", "genre", "quantity"}

\* _load's loop over data.get('books', []): a record that Book(**b) rejects
\* is skipped
RECURSIVE LoadBooks(_, _)
LoadBooks(items, bks) ==
    IF items = <<>> THEN bks
    ELSE LET b == Head(items)
         IN  LoadBooks(Tail(items),
                       IF DOMAIN b = BookKeys
                       THEN DictSet(bks, b.isbn,
                                    Book(b.title, b.author, b.isbn, b.genre, b.quantity))
                       ELSE bks)

\* rec['isbn'], fromisoformat(rec['borrowed_on']), fromisoformat(rec['due_date'])
\* do not raise
RecordLoads(rec) ==
    /\ {"isbn", "borrowed_on", "due_date"} \subseteq DOMAIN rec
    /\ IsIsoformat(rec.borrowed_on)
    /\ IsIsoformat(rec.due_date)

LoadRecordDueOnBorrowDay(rec) ==
    BorrowedRecord(rec.isbn, fromisoformat(rec.borrowed_on), fromisoformat(rec.borrowed_on))

LoadRecord(rec) ==
    BorrowedRecord(rec.isbn, fromisoformat(rec.borrowed_on), fromisoformat(rec.due_date))

\* br.get('borrowed_books', [])
BorrowedBooksOf(br) ==
    IF "borrowed_books" \in DOMAIN br THEN br.borrowed_books ELSE <<>>

\* the body of the try block for one borrower record does not raise
BorrowerLoads(br) ==
    /\ \A n \in 1 .. Len(BorrowedBooksOf(br)) : RecordLoads(BorrowedBooksOf(br)[n])
    /\ {"name", "contact"} \subseteq DOMAIN br

\* _load's loop over data.get('borrowers', []): a record whose try block
\* raises is skipped
RECURSIVE LoadBorrowers(_, _, _)
LoadBorrowers(items, brs, generated) ==
    IF items = <<>> THEN brs
    ELSE LET br == Head(items)
             recs == BorrowedBooksOf(br)
             borrower ==
                Borrower(br.name, br.contact,
                         IF "membership_id" \in DOMAIN br THEN br.membership_id ELSE "",
                         [n \in 1 .. Len(recs) |-> LoadRecord(recs[n])],
                         generated)
         IN  LoadBorrowers(Tail(items),
                           IF BorrowerLoads(br)
                           THEN DictSet(brs, borrower.membership_id, borrower)
                           ELSE brs,
                           generated)

\* what the for statement iterates over: the items of a list, the
\* characters of a string, nothing for the default []
Iterable(v) == v.type \in {"list", "string", "absent"}

\* _load on a file that exists: how the constructor ends and the dicts it
\* filled.  json.load raising gives data = {}; data.get on a top level that
\* is not an object, and a for statement over a value that cannot be
\* iterated, raise outside every try block.
Load(f, generated) ==
    LET data == IF f.kind = "text" THEN JsonFile("object", Absent, Absent) ELSE f
    IN  IF data.top # "object"
        THEN Outcome(<<>>, <<>>, "AttributeError", "object has no attribute 'get'")
        ELSE IF ~Iterable(data.books) \/ ~Iterable(data.borrowers)
        THEN Outcome(<<>>, <<>>, "TypeError", "object is not iterable")
        ELSE Outcome(LoadBooks(data.books.items, <<>>),
                     LoadBorrowers(data.borrowers.items, <<>>, generated),
                     "ok", TRUE)

\* ------------------------------------------------------------ history
\* number of outstanding records with this isbn, over all borrowers
RECURSIVE CountIsbn(_, _)
CountIsbn(recs, isbn) ==
    IF recs = <<>> THEN 0
    ELSE (IF Head(recs).isbn = isbn THEN 1 ELSE 0) + CountIsbn(Tail(recs), isbn)

RECURSIVE Outstanding(_, _)
Outstanding(brs, isbn) ==
    IF brs = <<>> THEN 0
    ELSE CountIsbn(Head(brs).val.borrowed_books, isbn) + Outstanding(Tail(brs), isbn)

RECURSIVE TotalLoans(_)
TotalLoans(brs) ==
    IF brs = <<>> THEN 0
    ELSE Len(Head(brs).val.borrowed_books) + TotalLoans(Tail(brs))

\* ------------------------------------------------------------ calls
\* a call of the Library: the dicts take the outcome's values, a call that
\* ended "ok" saved, a call that raised did not
NoCall == [op |-> "none", args |-> <<>>, status |-> "ok", ret |-> TRUE]

CallSaveRaises(op, args, out) ==
    /\ result.op = "none"
    /\ IF out.status = "ok" /\ disk = "failing"
       THEN /\ UNCHANGED <<books, borrowers>>
            /\ result' = [op |-> op, args |-> args, status |-> "OSError",
                          ret |-> "write failed"]
            /\ save(out.books, out.borrowers)
       ELSE /\ books' = out.books
            /\ borrowers' = out.borrowers
            /\ result' = [op |-> op, args |-> args, status |-> out.status,
                          ret |-> out.ret]
            /\ IF out.status = "ok"
               THEN save(out.books, out.borrowers)
               ELSE UNCHANGED <<file, disk>>
    /\ UNCHANGED <<now, workers>>

Call(op, args, out) ==
    /\ result.op = "none"
    /\ books' = out.books
    /\ borrowers' = out.borrowers
    /\ result' = [op |-> op, args |-> args, status |-> out.status, ret |-> out.ret]
    /\ IF out.status = "ok"
       THEN save(out.books, out.borrowers)
       ELSE UNCHANGED <<file, disk>>
    /\ UNCHANGED <<now, workers>>

AddBook(d, isbn, quantity) ==
    LET out == add_book(books, borrowers, d[1], d[2], isbn, d[3], quantity)
    IN  /\ out.status = "ok" => out.ret.quantity <= MaxCopies
        /\ Call("add_book",
                [title |-> d[1], author |-> d[2], isbn |-> isbn, genre |-> d[3],
                 quantity |-> quantity], out)

UpdateBook(isbn, kw) ==
    Call("update_book", [isbn |-> isbn, kw |-> kw],
         update_book(books, borrowers, isbn, kw))

RemoveBook(isbn) ==
    Call("remove_book", [isbn |-> isbn], remove_book(books, borrowers, isbn))

\* membership_id "" asks for a generated id: uuid4 tokens are taken to be
\* fresh, i.e. not registered yet
AddBorrower(d, membership_id) ==
    \E generated \in MemberIds :
        /\ membership_id = "" => ~DictHas(borrowers, generated)
        /\ membership_id # "" => generated = membership_id
        /\ Call("add_borrower",
                [name |-> d[1], contact |-> d[2], membership_id |-> membership_id],
                add_borrower(books, borrowers, d[1], d[2], membership_id, generated))

UpdateBorrower(membership_id, kw) ==
    Call("update_borrower", [membership_id |-> membership_id, kw |-> kw],
         update_borrower(books, borrowers, membership_id, kw))

RemoveBorrower(membership_id) ==
    Call("remove_borrower", [membership_id |-> membership_id],
         remove_borrower(books, borrowers, membership_id))

Borrow(membership_id, isbn) ==
    LET out == borrow_book(books, borrowers, now, membership_id, isbn)
    IN  /\ out.status = "ok" => TotalLoans(out.borrowers) <= MaxLoans
        /\ Call("borrow_book", [membership_id |-> membership_id, isbn |-> isbn], out)

Return(membership_id, isbn) ==
    Call("return_book", [membership_id |-> membership_id, isbn |-> isbn],
         return_book(books, borrowers, now, membership_id, isbn))

\* time passes between calls
Tick ==
    /\ result.op = "none"
    /\ \E t \in Days : t > now /\ now' = t
    /\ UNCHANGED <<books, borrowers, file, disk, result, workers>>

\* the caller consumes the result of the call (the handler of src/app.py
\* turns it into the response)
Respond ==
    /\ result.op # "none"
    /\ result' = NoCall
    /\ UNCHANGED <<books, borrowers, file, now, disk, workers>>

\* the file system starts to fail: the next write does not go through
DiskFault ==
    /\ result.op = "none"
    /\ disk = "healthy"
    /\ disk' = "failing"
    /\ UNCHANGED <<books, borrowers, file, now, result, workers>>

\* /api/search: a search changes nothing and returns the matching books
Search(query, field) ==
    /\ result.op = "none"
    /\ result' = [op |-> "search_books", args |-> [query |-> query, field |-> field],
                  status |-> "ok", ret |-> search_books(books, query, field)]
    /\ UNCHANGED <<books, borrowers, file, now, disk, workers>>

\* Library(...): a Library is constructed from the backing file (the process
\* starts or restarts).  A missing file is created by _save; a constructor
\* that raises leaves no Library.
Construct ==
    /\ result.op = "none"
    /\ IF file.kind = "missing"
       THEN /\ books' = <<>>
            /\ borrowers' = <<>>
            /\ result' = [op |-> "__init__", args |-> <<>>, status |-> "ok", ret |-> TRUE]
            /\ save(<<>>, <<>>)
       ELSE \E generated \in GeneratedIds :
                LET out == Load(file, generated)
                IN  /\ books' = out.books
                    /\ borrowers' = out.borrowers
                    /\ result' = [op |-> "__init__", args |-> <<>>,
                                  status |-> out.status, ret |-> out.ret]
                    /\ UNCHANGED <<file, disk>>
    /\ UNCHANGED <<now, workers>>

\* ------------------------------------------------------------ HTTP layer
\* src/app.py: the development server handles each request on a thread of
\* its own; the handlers call the one Library instance without a lock.
\* /api/borrow is followed statement by statement, the other handlers are
\* taken whole while no borrow is in progress.
Threads == {"w1", "w2"}

IdleWorker == [pc |-> "idle", membership_id |-> "", isbn |-> "", quantity |-> 0,
               status |-> "none"]

AllIdle == \A t \in Threads : workers[t].pc = "idle"

InFlight == Cardinality({t \in Threads : workers[t].pc # "idle"})

\* a statement of a worker: nothing but the Library's dicts, the file and
\* the worker itself changes
WorkerStep(t, w) ==
    /\ workers' = [workers EXCEPT ![t] = w]
    /\ UNCHANGED <<now, result>>

\* borrow(): the request is parsed and library.borrow_book is entered
BorrowRequest(t, membership_id, isbn) ==
    /\ workers[t].pc = "idle"
    /\ result.op = "none"
    /\ TotalLoans(borrowers) + InFlight < MaxLoans
    /\ WorkerStep(t, [IdleWorker EXCEPT !.pc = "check_borrower",
                                        !.membership_id = membership_id,
                                        !.isbn = isbn])
    /\ UNCHANGED <<books, borrowers, file, disk>>

\* if membership_id not in self.borrowers_by_id: raise KeyError
BorrowCheckBorrower(t) ==
    /\ workers[t].pc = "check_borrower"
    /\ WorkerStep(t, IF DictHas(borrowers, workers[t].membership_id)
                     THEN [workers[t] EXCEPT !.pc = "check_book"]
                     ELSE [workers[t] EXCEPT !.pc = "respond", !.status = "KeyError"])
    /\ UNCHANGED <<books, borrowers, file, disk>>

\* if isbn not in self.books_by_isbn: raise KeyError
BorrowCheckBook(t) ==
    /\ workers[t].pc = "check_book"
    /\ WorkerStep(t, IF DictHas(books, workers[t].isbn)
                     THEN [workers[t] EXCEPT !.pc = "check_copies"]
                     ELSE [workers[t] EXCEPT !.pc = "respond", !.status = "KeyError"])
    /\ UNCHANGED <<books, borrowers, file, disk>>

\* book = self.books_by_isbn[isbn]; if book.quantity <= 0: raise ValueError
BorrowCheckCopies(t) ==
    /\ workers[t].pc = "check_copies"
    /\ WorkerStep(t, IF NoCopies(DictGet(books, workers[t].isbn))
                     THEN [workers[t] EXCEPT !.pc = "respond", !.status = "ValueError"]
                     ELSE [workers[t] EXCEPT !.pc = "append"])
    /\ UNCHANGED <<books, borrowers, file, disk>>

\* the record is created and appended to borrower.borrowed_books
BorrowAppend(t) ==
    /\ workers[t].pc = "append"
    /\ LET m == workers[t].membership_id
           borrower == DictGet(borrowers, m)
           record == BorrowedRecord(workers[t].isbn, now, now + LOAN_DAYS)
       IN  borrowers' = DictSet(borrowers, m,
                                [borrower EXCEPT
                                    !.borrowed_books = AppendRecord(@, record)])
    /\ WorkerStep(t, [workers[t] EXCEPT !.pc = "load_quantity"])
    /\ UNCHANGED <<books, file, disk>>

\* book.quantity -= 1, the read
BorrowLoadQuantity(t) ==
    /\ workers[t].pc = "load_quantity"
    /\ WorkerStep(t, [workers[t] EXCEPT
                        !.pc = "store_quantity",
                        !.quantity = DictGet(books, workers[t].isbn).quantity])
    /\ UNCHANGED <<books, borrowers, file, disk>>

\* book.quantity -= 1, the write
BorrowStoreQuantity(t) ==
    /\ workers[t].pc = "store_quantity"
    /\ books' = DictSet(books, workers[t].isbn,
                        [DictGet(books, workers[t].isbn) EXCEPT
                            !.quantity = workers[t].quantity - 1])
    /\ WorkerStep(t, [workers[t] EXCEPT !.pc = "save"])
    /\ UNCHANGED <<borrowers, file, disk>>

\* self._save(); return record
BorrowSave(t) ==
    /\ workers[t].pc = "save"
    /\ save(books, borrowers)
    /\ WorkerStep(t, [workers[t] EXCEPT !.pc = "respond", !.status = "ok"])
    /\ UNCHANGED <<books, borrowers>>

\* the handler turns the record or the exception into the response
BorrowRespond(t) ==
    /\ workers[t].pc = "respond"
    /\ WorkerStep(t, IdleWorker)
    /\ UNCHANGED <<books, borrowers, file, disk>>

\* ------------------------------------------------------------ specification
\* Library.__init__ with no backing file: empty dicts, _load creates the file
Init ==
    /\ books = <<>>
    /\ borrowers = <<>>
    /\ file = SaveData(<<>>, <<>>)
    /\ now = 0
    /\ disk = "healthy"
    /\ result = NoCall
    /\ workers = [t \in Threads |-> IdleWorker]
    /\ added = [i \in ISBNs |-> 0]
    /\ conserving = TRUE

\* ------------------------------------------------------------ history
\* the last call ended "ok" and was this operation
Did(op) == result'.op = op /\ result'.status = "ok"

\* the call just made dropped or overwrote copies: update_book set a
\* quantity, remove_book removed a book with outstanding loans,
\* remove_borrower or add_borrower discarded a borrower's loan records
Breaks ==
    \/ Did("update_book") /\ "quantity" \in DOMAIN result'.args.kw
    \/ Did("remove_book") /\ Outstanding(borrowers, result'.args.isbn) > 0
    \/ Did("remove_borrower")
          /\ DictGet(borrowers, result'.args.membership_id).borrowed_books # <<>>
    \/ Did("add_borrower")
          /\ DictHas(borrowers, result'.ret.membership_id)
          /\ DictGet(borrowers, result'.ret.membership_id).borrowed_books # <<>>

\* the history variables follow the calls
Track ==
    /\ added' =
         IF Did("add_book")
         THEN [added EXCEPT ![result'.args.isbn] = @ + result'.args.quantity]
         ELSE IF Did("remove_book")
         THEN [added EXCEPT ![result'.args.isbn] = 0]
         ELSE added
    /\ conserving' = (conserving /\ ~Breaks)

NoTrack == UNCHANGED <<added, conserving>>

\* ------------------------------------------------------------ specifications
\* every operation of the Library, all calls made on day 0; the books'
\* descriptive fields are left alone here (NextCatalog varies them)
Next ==
    \/ (\E i \in ISBNs, q \in Quantities : AddBook(<<"T", "A", "G">>, i, q)) /\ NoTrack
    \/ (\E i \in ISBNs, kw \in QuantityKwargs : UpdateBook(i, kw)) /\ NoTrack
    \/ (\E i \in ISBNs : RemoveBook(i)) /\ NoTrack
    \/ (\E d \in BorrowerDescs, m \in MemberIds \cup {""} : AddBorrower(d, m)) /\ NoTrack
    \/ (\E m \in MemberIds, kw \in UpdateBorrowerKwargs : UpdateBorrower(m, kw)) /\ NoTrack
    \/ (\E m \in MemberIds : RemoveBorrower(m)) /\ NoTrack
    \/ (\E m \in MemberIds, i \in ISBNs : Borrow(m, i)) /\ NoTrack
    \/ (\E m \in MemberIds, i \in ISBNs : Return(m, i)) /\ NoTrack
    \/ Respond /\ NoTrack

Spec == Init /\ [][Next]_vars

\* the same with the history of the copies, up to and including the first
\* call that drops or overwrites copies
TrackLedger == conserving /\ Track

NextLedger ==
    \/ (\E i \in ISBNs, q \in Quantities : AddBook(<<"T", "A", "G">>, i, q)) /\ TrackLedger
    \/ (\E i \in ISBNs, kw \in QuantityKwargs : UpdateBook(i, kw)) /\ TrackLedger
    \/ (\E i \in ISBNs : RemoveBook(i)) /\ TrackLedger
    \/ (\E d \in BorrowerDescs, m \in MemberIds \cup {""} : AddBorrower(d, m)) /\ TrackLedger
    \/ (\E m \in MemberIds, kw \in UpdateBorrowerKwargs : UpdateBorrower(m, kw)) /\ TrackLedger
    \/ (\E m \in MemberIds : RemoveBorrower(m)) /\ TrackLedger
    \/ (\E m \in MemberIds, i \in ISBNs : Borrow(m, i)) /\ TrackLedger
    \/ (\E m \in MemberIds, i \in ISBNs : Return(m, i)) /\ TrackLedger
    \/ Respond /\ TrackLedger

SpecLedger == Init /\ [][NextLedger]_vars

\* add_book, add_borrower with distinct membership ids, borrow_book and
\* return_book only, on any days, with the history of the copies
NextLoans ==
    \/ (\E i \in ISBNs, q \in Quantities : AddBook(<<"T", "A", "G">>, i, q)) /\ Track
    \/ (\E m \in MemberIds :
            ~DictHas(borrowers, m) /\ AddBorrower(<<"Ann", "c1">>, m)) /\ Track
    \/ (\E m \in MemberIds, i \in ISBNs : Borrow(m, i)) /\ Track
    \/ (\E m \in MemberIds, i \in ISBNs : Return(m, i)) /\ Track
    \/ Tick /\ Track
    \/ Respond /\ Track

SpecLoans == Init /\ [][NextLoans]_vars

\* the book management operations only, with every description and every
\* keyword argument
NextCatalog ==
    \/ (\E d \in BookDescs, i \in ISBNs, q \in Quantities : AddBook(d, i, q)) /\ NoTrack
    \/ (\E i \in ISBNs, kw \in UpdateBookKwargs : UpdateBook(i, kw)) /\ NoTrack
    \/ (\E i \in ISBNs : RemoveBook(i)) /\ NoTrack
    \/ Respond /\ NoTrack

SpecCatalog == Init /\ [][NextCatalog]_vars

\* the HTTP server with its worker threads: books and borrowers are added
\* while no borrow is in progress, /api/borrow requests run concurrently
NextHTTP ==
    \/ (AllIdle /\ \E i \in ISBNs, q \in 1 .. MaxCopies :
            AddBook(<<"T", "A", "G">>, i, q)) /\ Track
    \/ (AllIdle /\ \E m \in MemberIds :
            ~DictHas(borrowers, m) /\ AddBorrower(<<"Ann", "c1">>, m)) /\ Track
    \/ Respond /\ Track
    \/ (\E t \in Threads, m \in MemberIds, i \in ISBNs : BorrowRequest(t, m, i)) /\ Track
    \/ (\E t \in Threads : BorrowCheckBorrower(t)) /\ Track
    \/ (\E t \in Threads : BorrowCheckBook(t)) /\ Track
    \/ (\E t \in Threads : BorrowCheckCopies(t)) /\ Track
    \/ (\E t \in Threads : BorrowAppend(t)) /\ Track
    \/ (\E t \in Threads : BorrowLoadQuantity(t)) /\ Track
    \/ (\E t \in Threads : BorrowStoreQuantity(t)) /\ Track
    \/ (\E t \in Threads : BorrowSave(t)) /\ Track
    \/ (\E t \in Threads : BorrowRespond(t)) /\ Track

SpecHTTP == Init /\ [][NextHTTP]_vars

\* every mutating operation on one book, with a file system that may fail once
NextFaults ==
    \/ (\E q \in 1 .. MaxCopies : AddBook(<<"T", "A", "G">>, "111", q)) /\ NoTrack
    \/ (\E kw \in QuantityKwargs : UpdateBook("111", kw)) /\ NoTrack
    \/ RemoveBook("111") /\ NoTrack
    \/ (\E m \in MemberIds : AddBorrower(<<"Ann", "c1">>, m)) /\ NoTrack
    \/ (\E m \in MemberIds : UpdateBorrower(m, [name |-> "Bob", contact |-> "c2"])) /\ NoTrack
    \/ (\E m \in MemberIds : RemoveBorrower(m)) /\ NoTrack
    \/ (\E m \in MemberIds : Borrow(m, "111")) /\ NoTrack
    \/ (\E m \in MemberIds : Return(m, "111")) /\ NoTrack
    \/ Respond /\ NoTrack
    \/ DiskFault /\ NoTrack

SpecFaults == Init /\ [][NextFaults]_vars

\* the loan operations, and the Library constructed again from the file at
\* any time between calls
NextRestart ==
    \/ (\E i \in ISBNs, q \in 1 .. MaxCopies : AddBook(<<"T", "A", "G">>, i, q)) /\ NoTrack
    \/ (\E m \in MemberIds :
            ~DictHas(borrowers, m) /\ AddBorrower(<<"Ann", "c1">>, m)) /\ NoTrack
    \/ (\E m \in MemberIds, i \in ISBNs : Borrow(m, i)) /\ NoTrack
    \/ (\E m \in MemberIds, i \in ISBNs : Return(m, i)) /\ NoTrack
    \/ Tick /\ NoTrack
    \/ Respond /\ NoTrack
    \/ Construct /\ NoTrack

SpecRestart == Init /\ [][NextRestart]_vars

\* a catalog that grows and shrinks, searched with every query and field
NextSearch ==
    \/ (\E d \in BookDescs, i \in ISBNs : AddBook(d, i, 1)) /\ NoTrack
    \/ (\E i \in ISBNs : RemoveBook(i)) /\ NoTrack
    \/ (\E query \in Queries, field \in Fields : Search(query, field)) /\ NoTrack
    \/ Respond /\ NoTrack

SpecSearch == Init /\ [][NextSearch]_vars

\* the constructor on any content of the backing file
InitLoad ==
    /\ books = <<>>
    /\ borrowers = <<>>
    /\ file \in FileContents
    /\ now = 0
    /\ disk = "healthy"
    /\ result = NoCall
    /\ workers = [t \in Threads |-> IdleWorker]
    /\ added = [i \in ISBNs |-> 0]
    /\ conserving = TRUE

NextLoad ==
    \/ Construct /\ NoTrack
    \/ Respond /\ NoTrack

SpecLoad == InitLoad /\ [][NextLoad]_vars

\* ------------------------------------------------------------ claims
Catalogued == DictKeys(books)

Registered == DictKeys(borrowers)

QuantityOf(isbn) == DictGet(books, isbn).quantity

LoansOf(membership_id) == DictGet(borrowers, membership_id).borrowed_books

\* C1: copy conservation under borrow/return.  In every state built by
\* add_book, add_borrower with distinct membership ids, borrow_book and
\* return_book calls (successful or failing), for every catalogued isbn the
\* book's quantity plus the number of outstanding records with that isbn,
\* summed over all borrowers, equals the sum of the quantities add_book
\* accepted for that isbn.
C1_CopyConservation ==
    \A i \in Catalogued : QuantityOf(i) + Outstanding(borrowers, i) = added[i]

\* the last copy is out on loan and a further borrow_book has failed
C1_Witness ==
    /\ result.op = "borrow_book"
    /\ result.status = "ValueError"
    /\ Outstanding(borrowers, result.args.isbn) = 2
    /\ added[result.args.isbn] = 2

\* C2 as claimed: in every state reachable by any sequence of Library
\* operations, every Book's quantity equals its added total minus the number
\* of outstanding records referencing its isbn.
C2_GlobalConservation ==
    \A i \in Catalogued : QuantityOf(i) = added[i] - Outstanding(borrowers, i)

\* C2 as amended: the same, as long as no update_book has set a quantity, no
\* book with outstanding loans was removed, and no borrower holding loans was
\* removed or overwritten by add_borrower.
C2_ConservationWhileNoCopiesDropped ==
    conserving =>
        \A i \in Catalogued : QuantityOf(i) = added[i] - Outstanding(borrowers, i)

\* copies are out on loan and an operation outside borrow/return/add has
\* just run without dropping any
C2_Witness ==
    /\ conserving
    /\ result.op \in {"remove_book", "remove_borrower", "update_borrower"}
    /\ result.status = "ok"
    /\ \E i \in Catalogued : Outstanding(borrowers, i) > 0

\* C3: in every reachable state, whatever integer quantities were passed,
\* every Book in the catalog has quantity >= 0.
C3_QuantityNeverNegative == \A i \in Catalogued : QuantityOf(i) >= 0

\* C4: concurrent /api/borrow requests are serialized, so that of two
\* concurrent borrows of a book with one copy left at most one succeeds: no
\* quantity drops below 0 and no more copies are out on loan than were added.
C4_BorrowAtomic ==
    \A i \in Catalogued :
        /\ QuantityOf(i) >= 0
        /\ Outstanding(borrowers, i) <= added[i]

\* the arguments of the call just made
CallMember == result'.args.membership_id

CallIsbn == result'.args.isbn

Loans(brs, membership_id) == DictGet(brs, membership_id).borrowed_books

\* the call just made raised and left the dicts and the file as they were
Untouched == UNCHANGED <<books, borrowers, file>>

\* C5: borrow_book by a registered borrower for a catalogued book whose
\* quantity is 0 fails with the capacity ValueError and leaves every book,
\* every loan sequence and the backing file unchanged.
C5_BorrowAtZeroFails ==
    [][(/\ result'.op = "borrow_book"
        /\ CallMember \in Registered
        /\ CallIsbn \in Catalogued
        /\ QuantityOf(CallIsbn) = 0)
       => (/\ result'.status = "ValueError"
           /\ result'.ret = "No copies available"
           /\ Untouched)]_vars

\* a registered borrower has just been refused a book with no copy left
C5_Witness ==
    /\ result.op = "borrow_book"
    /\ result.status = "ValueError"
    /\ result.args.membership_id \in Registered
    /\ result.args.isbn \in Catalogued
    /\ QuantityOf(result.args.isbn) = 0

\* C6: return_book by a registered borrower for a catalogued isbn of which
\* the borrower holds no outstanding record fails with a ValueError and
\* leaves every book, every loan sequence and the backing file unchanged.
C6_ReturnMismatchFails ==
    [][(/\ result'.op = "return_book"
        /\ CallMember \in Registered
        /\ CallIsbn \in Catalogued
        /\ CountIsbn(Loans(borrowers, CallMember), CallIsbn) = 0)
       => (/\ result'.status = "ValueError"
           /\ result'.ret = "This borrower did not borrow this book"
           /\ Untouched)]_vars

\* a borrower who holds a loan on another book has just been refused a
\* return
C6_Witness ==
    /\ result.op = "return_book"
    /\ result.status = "ValueError"
    /\ LoansOf(result.args.membership_id) # <<>>

\* C7: when membership_id and isbn are known and the book's quantity is > 0,
\* borrow_book succeeds, appends exactly one record (isbn, borrowed_on = now,
\* due_date = borrowed_on + loan_days) at the end of that borrower's loan
\* sequence, returns it, decrements that book's quantity by exactly 1 and
\* changes nothing else.
C7_BorrowEffect ==
    [][(/\ result'.op = "borrow_book"
        /\ CallMember \in Registered
        /\ CallIsbn \in Catalogued
        /\ QuantityOf(CallIsbn) > 0)
       => LET record == [isbn |-> CallIsbn, borrowed_on |-> now,
                         due_date |-> now + LOAN_DAYS]
          IN  /\ result'.status = "ok"
              /\ result'.ret = record
              /\ Len(borrowers') = Len(borrowers)
              /\ \A n \in 1 .. Len(borrowers) :
                    IF borrowers[n].key = CallMember
                    THEN /\ borrowers'[n].key = CallMember
                         /\ borrowers'[n].val =
                              [borrowers[n].val EXCEPT
                                 !.borrowed_books = Append(@, record)]
                    ELSE borrowers'[n] = borrowers[n]
              /\ Len(books') = Len(books)
              /\ \A n \in 1 .. Len(books) :
                    IF books[n].key = CallIsbn
                    THEN /\ books'[n].key = CallIsbn
                         /\ books'[n].val =
                              [books[n].val EXCEPT !.quantity = @ - 1]
                    ELSE books'[n] = books[n]]_vars

\* a second record has just been appended after an earlier one, on a later
\* day, with another book and another borrower present
C7_Witness ==
    /\ result.op = "borrow_book"
    /\ result.status = "ok"
    /\ now > 0
    /\ Len(LoansOf(result.args.membership_id)) = 2
    /\ LoansOf(result.args.membership_id)[1].borrowed_on < now
    /\ Cardinality(Catalogued) = 2
    /\ Cardinality(Registered) = 2

\* C8: return_book by a borrower who holds one or several outstanding
\* records for the isbn succeeds, removes exactly one record, the earliest
\* one in the loan sequence with that isbn, keeps all other records in their
\* order, increments that book's quantity by exactly 1 and reports the
\* due_date of the removed record.
C8_ReturnFirstMatch ==
    [][(/\ result'.op = "return_book"
        /\ CallMember \in Registered
        /\ CallIsbn \in Catalogued
        /\ CountIsbn(Loans(borrowers, CallMember), CallIsbn) >= 1)
       => LET old == Loans(borrowers, CallMember)
              n == CHOOSE k \in 1 .. Len(old) :
                      /\ old[k].isbn = CallIsbn
                      /\ \A j \in 1 .. k - 1 : old[j].isbn # CallIsbn
          IN  /\ result'.status = "ok"
              /\ Loans(borrowers', CallMember) =
                    [k \in 1 .. Len(old) - 1 |-> IF k < n THEN old[k] ELSE old[k + 1]]
              /\ DictGet(books', CallIsbn).quantity = QuantityOf(CallIsbn) + 1
              /\ result'.ret.due_date = isoformat(old[n].due_date)]_vars

\* a borrower who held two records for the isbn, borrowed on different days,
\* has just returned one and still holds the other
C8_Witness ==
    /\ result.op = "return_book"
    /\ result.status = "ok"
    /\ \E k \in 1 .. Len(LoansOf(result.args.membership_id)) :
          /\ LoansOf(result.args.membership_id)[k].isbn = result.args.isbn
          /\ isoformat(LoansOf(result.args.membership_id)[k].due_date)
                # result.ret.due_date

\* C9: borrow_book and return_book fail with KeyError whenever
\* membership_id is unknown, and otherwise whenever isbn is not in the
\* catalog, before any capacity or loan-record check, also when the borrower
\* still holds a record for the removed isbn; the failure leaves the books,
\* the loan sequences and the file unchanged.
C9_NotFoundFirst ==
    [][(result'.op \in {"borrow_book", "return_book"})
       => /\ CallMember \notin Registered
                => /\ result'.status = "KeyError"
                   /\ result'.ret = "Borrower not found"
          /\ (CallMember \in Registered /\ CallIsbn \notin Catalogued)
                => /\ result'.status = "KeyError"
                   /\ result'.ret = "Book not found"
          /\ result'.status = "KeyError" => Untouched]_vars

\* a borrower who still holds a record for a removed book has just been told
\* that the book is not found
C9_Witness ==
    /\ result.op = "return_book"
    /\ result.status = "KeyError"
    /\ result.args.membership_id \in Registered
    /\ CountIsbn(LoansOf(result.args.membership_id), result.args.isbn) > 0

\* C10 as claimed: add_book on an isbn that is in the catalog with quantity
\* q1 leaves exactly one Book for that isbn, with quantity q1 + q2 and the
\* title, author and genre it had.
C10_ReAddMerges ==
    [][(result'.op = "add_book" /\ CallIsbn \in Catalogued)
       => /\ Len(books') = Len(books)
          /\ \A n \in 1 .. Len(books) :
                IF books[n].key = CallIsbn
                THEN books'[n] =
                       [books[n] EXCEPT
                          !.val.quantity = @ + result'.args.quantity]
                ELSE books'[n] = books[n]]_vars

\* C10 as amended: the same when q1 + q2 >= 0; when q1 + q2 < 0 the second
\* call fails with the validation error and the catalog is unchanged.
C10_ReAddMergesIfNotNegative ==
    [][(result'.op = "add_book" /\ CallIsbn \in Catalogued)
       => IF QuantityOf(CallIsbn) + result'.args.quantity >= 0
          THEN /\ result'.status = "ok"
               /\ Len(books') = Len(books)
               /\ \A n \in 1 .. Len(books) :
                     IF books[n].key = CallIsbn
                     THEN books'[n] =
                            [books[n] EXCEPT
                               !.val.quantity = @ + result'.args.quantity]
                     ELSE books'[n] = books[n]
          ELSE /\ result'.status = "ValueError"
               /\ books' = books]_vars

\* a second add_book with another title, author and genre has just raised
\* the quantity of a book and left its description as it was
C10_Witness ==
    /\ result.op = "add_book"
    /\ result.status = "ok"
    /\ result.args.quantity > 0
    /\ QuantityOf(result.args.isbn) > result.args.quantity
    /\ DictGet(books, result.args.isbn).title # result.args.title
    /\ DictGet(books, result.args.isbn).author # result.args.author
    /\ DictGet(books, result.args.isbn).genre # result.args.genre

\* C11: return_book reports overdue = TRUE exactly when the day of the return
\* is strictly later than the removed record's due date, which is the day of
\* the borrow plus loan_days; a return on or before the due day, and so a
\* return on the day of the borrow, reports overdue = FALSE.
C11_OverdueFlag ==
    [][Did("return_book") =>
          LET recs == Loans(borrowers, CallMember)
              found == recs[FirstMatch(recs, CallIsbn)]
          IN  /\ found.due_date = found.borrowed_on + LOAN_DAYS
              /\ result'.ret.overdue = (now > found.borrowed_on + LOAN_DAYS)
              /\ (now <= found.due_date) => (result'.ret.overdue = FALSE)
              /\ (now = found.borrowed_on) => (result'.ret.overdue = FALSE)]_vars

\* a return made after the due day was reported overdue, while the borrower
\* still holds a loan that is not
C11_Witness ==
    /\ result.op = "return_book"
    /\ result.status = "ok"
    /\ result.ret.overdue = TRUE
    /\ now > LOAN_DAYS
    /\ \E m \in Registered : LoansOf(m) # <<>>

\* the mutating operations of the Library
MutatingOps ==
    {"add_book", "update_book", "remove_book", "add_borrower", "update_borrower",
     "remove_borrower", "borrow_book", "return_book"}

\* this step is a call of a mutating operation
CallMade == result.op = "none" /\ result'.op \in MutatingOps

\* what the operation of this step does to the dicts it finds, and how it ends
Applied ==
    LET a == result'.args
    IN  CASE result'.op = "add_book" ->
               add_book(books, borrowers, a.title, a.author, a.isbn, a.genre, a.quantity)
          [] result'.op = "update_book" -> update_book(books, borrowers, a.isbn, a.kw)
          [] result'.op = "remove_book" -> remove_book(books, borrowers, a.isbn)
          [] result'.op = "add_borrower" ->
               add_borrower(books, borrowers, a.name, a.contact, a.membership_id,
                            result'.ret.membership_id)
          [] result'.op = "update_borrower" ->
               update_borrower(books, borrowers, a.membership_id, a.kw)
          [] result'.op = "remove_borrower" ->
               remove_borrower(books, borrowers, a.membership_id)
          [] result'.op = "borrow_book" ->
               borrow_book(books, borrowers, now, a.membership_id, a.isbn)
          [] result'.op = "return_book" ->
               return_book(books, borrowers, now, a.membership_id, a.isbn)

\* C12: every mutating operation that completes successfully while the write
\* goes through leaves in the file the complete state after the operation:
\* every book with its fields and every borrower with all loan records.
C12_SnapshotPersistence ==
    [][(CallMade /\ result'.status = "ok" /\ disk # "failing") =>
          /\ file' = SaveData(books', borrowers')
          /\ file'.kind = "json"
          /\ Len(file'.books.items) = Len(books')
          /\ \A n \in 1 .. Len(books') :
                file'.books.items[n] = Book_to_dict(books'[n].val)
          /\ Len(file'.borrowers.items) = Len(borrowers')
          /\ \A n \in 1 .. Len(borrowers') :
                /\ file'.borrowers.items[n].membership_id = borrowers'[n].key
                /\ Len(file'.borrowers.items[n].borrowed_books) =
                      Len(borrowers'[n].val.borrowed_books)]_vars

\* after a write that failed, a later successful operation left the whole
\* state in the file: a book and a borrower holding a loan
C12_Witness ==
    /\ result.op \in MutatingOps
    /\ result.status = "ok"
    /\ disk = "repaired"
    /\ books # <<>>
    /\ \E m \in Registered : LoansOf(m) # <<>>
    /\ file = SaveData(books, borrowers)

\* C13: when the write to the file fails during a mutating operation, the
\* operation ends as it does when the write goes through: same result, same
\* in-memory dicts, no error; and the operations after it keep working on
\* the in-memory state.
C13_SaveFailureSwallowed ==
    [][(CallMade /\ disk \in {"failing", "repaired"}) =>
          /\ result'.status = Applied.status
          /\ books' = Applied.books
          /\ borrowers' = Applied.borrowers
          /\ result'.ret = Applied.ret
          /\ (disk = "failing" /\ disk' = "repaired") => result'.status = "ok"]_vars

\* a borrow whose write failed returned its record, the loan is in memory and
\* not in the file
C13_Witness ==
    /\ result.op = "borrow_book"
    /\ result.status = "ok"
    /\ disk = "repaired"
    /\ LoansOf(result.args.membership_id) # <<>>
    /\ file # SaveData(books, borrowers)

\* C14: a Library constructed from the file that holds the saved state has
\* the same books with the same fields and the same borrowers with the same
\* loan records, in the same order and with the same timestamps.
C14_RoundTrip ==
    [][(result.op = "none" /\ result'.op = "__init__"
            /\ file = SaveData(books, borrowers)) =>
          /\ result'.status = "ok"
          /\ books' = books
          /\ borrowers' = borrowers]_vars

\* a Library was constructed from a file with a book and a borrower holding
\* two loans made on different days
C14_Witness ==
    /\ result.op = "__init__"
    /\ result.status = "ok"
    /\ books # <<>>
    /\ file = SaveData(books, borrowers)
    /\ \E m \in Registered :
          /\ Len(LoansOf(m)) = 2
          /\ LoansOf(m)[1].due_date # LoansOf(m)[2].due_date

\* C15: constructing a Library succeeds for every content of the backing
\* file.
C15_LoadNeverCrashes == result.op = "__init__" => result.status = "ok"

\* the call whose result is pending is a search by a field that is none of
\* title, author, genre
UnknownField ==
    result.op = "search_books" /\ result.args.field \notin {"title", "author", "genre"}

\* C16: search_books with a field other than title, author or genre returns
\* an empty result without raising, whatever the catalog and the query, the
\* empty and the whitespace-only query included.
C16_UnknownFieldEmpty == UnknownField => (result.status = "ok" /\ result.ret = <<>>)

\* C16 (amended): with such a field search_books never raises; it returns an
\* empty result when the query has a character other than whitespace, and
\* every book of the catalog, in catalog order, when the query is empty or
\* whitespace only.
C16_UnknownFieldEmptyUnlessBlank ==
    UnknownField =>
        /\ result.status = "ok"
        /\ file = SaveData(books, borrowers)
        /\ result.ret =
              IF \A n \in 1 .. Len(result.args.query) : result.args.query[n] = " "
              THEN DictValues(books)
              ELSE <<>>

\* a search by an unknown field, with a query that a title contains, found
\* nothing in a catalog of two books
C16_Witness ==
    /\ result.op = "search_books"
    /\ result.args.field = "isbn"
    /\ result.args.query = <<" ", "t">>
    /\ Len(books) = 2
    /\ \E n \in 1 .. Len(books) : books[n].val.title = "T"
    /\ result.ret = <<>>

\* C17: a call that ends with a NotFound or a Validation error leaves the
\* books and the borrowers in memory exactly as they were before the call.
C17_FailedCallChangesNothing ==
    [][(result.op = "none" /\ result'.op \in MutatingOps
            /\ result'.status \in {"KeyError", "ValueError"}) =>
          UNCHANGED <<books, borrowers>>]_vars

\* C18: remove_book succeeds for every catalogued isbn, with or without
\* outstanding loans on it, deletes that book only and leaves every
\* borrower, loan records included, as it was; remove_borrower succeeds for
\* every registered borrower, with or without loans, deletes that borrower
\* only and leaves every book, quantities included, as it was.
C18_RemovalPermissive ==
    [][/\ (result.op = "none" /\ result'.op = "remove_book"
              /\ result'.args.isbn \in Catalogued) =>
            /\ result'.status = "ok"
            /\ borrowers' = borrowers
            /\ books' = SelectSeq(books, LAMBDA e : e.key # result'.args.isbn)
       /\ (result.op = "none" /\ result'.op = "remove_borrower"
              /\ result'.args.membership_id \in Registered) =>
            /\ result'.status = "ok"
            /\ books' = books
            /\ borrowers' =
                  SelectSeq(borrowers, LAMBDA e : e.key # result'.args.membership_id)]_vars

\* a book was removed while a borrower holds a loan on it; the record is
\* still there
C18_Witness ==
    /\ result.op = "remove_book"
    /\ result.status = "ok"
    /\ result.args.isbn \notin Catalogued
    /\ \E m \in Registered :
          \E k \in 1 .. Len(LoansOf(m)) : LoansOf(m)[k].isbn = result.args.isbn

\* C19: add_borrower leaves the name, the contact and the loan records of
\* every borrower registered before the call as they were, also when the
\* membership_id given is the id of one of them.
C19_AddBorrowerKeepsOthers ==
    [][(result.op = "none" /\ result'.op = "add_borrower") =>
          \A m \in Registered :
              /\ DictHas(borrowers', m)
              /\ DictGet(borrowers', m) = DictGet(borrowers, m)]_vars

====
